---- MODULE Spec2Model ----
(***************************************************************************)
(* Model of reddit_upvotes_dl.py: paginated discovery (App.grab_links),    *)
(* the pool of DownloadWorker threads draining queue.Queue, save_image,    *)
(* and the status loop of App.run.                                         *)
(*                                                                         *)
(* Strings are modelled as sequences of tokens, a URL as the sequence of   *)
(* its '/'-separated segments (each a token sequence), so that             *)
(* url.split('/')[-1], "filename += '_copy'", "'.png' in url" and          *)
(* "'http:' + link" are computed rather than assumed.                      *)
(***************************************************************************)
EXTENDS Integers, Sequences, FiniteSets, TLC

\* ---------------------------------------------------------------- bounds
\* cap on the number of get_posts calls of one run (the while loop of
\* grab_links has no bound of its own)
MaxFetches == 3

\* ------------------------------------------------------ program constants
NUM_WORKERS == 4

Workers == 1..NUM_WORKERS

\* -------------------------------------------------------- string helpers
Last(s) == s[Len(s)]

\* "tok in s" for a token sequence s
TokIn(tok, s) == \E j \in 1..Len(s) : s[j] = tok

\* "tok in url" for a URL (sequence of segments)
TokInUrl(tok, url) == \E i \in 1..Len(url) : TokIn(tok, url[i])

\* url.split('/')[-1]
Basename(url) == Last(url)

\* download_path + '\\' + filename
PathJoin(download_path, filename) == <<download_path, "\\">> \o filename

\* 'http:' + link, link formatted as //i.imgur.com/<IMAGE NAME>
AddSchema(link) == <<<<"http:">> \o link[1]>> \o Tail(link)

\* ------------------------------------------------------------ the inputs
\* subreddits.json: folder path -> list of subreddits
SubredditsFile ==
    [p \in {"/dest/pics", "/dest/art"} |->
        IF p = "/dest/pics" THEN <<"pics", "aww">> ELSE <<"art">>]

\* get_subreddits(): subreddit -> download path
get_subreddits ==
    [s \in UNION {{SubredditsFile[p][i] : i \in 1..Len(SubredditsFile[p])}
                        : p \in DOMAIN SubredditsFile} |->
        CHOOSE p \in DOMAIN SubredditsFile : TokIn(s, SubredditsFile[p])]

UrlA    == << <<"http:">>, <<>>, <<"x.com">>, <<"a", ".png">> >>
UrlB    == << <<"http:">>, <<>>, <<"x.com">>, <<"b", ".png">> >>
UrlImg  == << <<"http:">>, <<>>, <<"i.", "imgur", ".com">>, <<"a", ".png">> >>
UrlAlb  == << <<"http:">>, <<>>, <<"imgur", ".com">>, <<"a">>, <<"alb">> >>
LinkA   == << <<>>, <<>>, <<"i.", "imgur", ".com">>, <<"a", ".png">> >>
LinkC   == << <<>>, <<>>, <<"i.", "imgur", ".com">>, <<"c", ".jpg">> >>

MkPost(sub, thumb, url, dom) ==
    [subreddit |-> sub, thumbnail |-> thumb, url |-> url, domain |-> dom]

PostA     == MkPost("pics", "t1",   UrlA,   <<"x.com">>)
PostB     == MkPost("pics", "t1",   UrlB,   <<"x.com">>)
PostSelf  == MkPost("pics", "self", UrlB,   <<"self.pics">>)
PostOther == MkPost("news", "t1",   UrlB,   <<"x.com">>)
PostArt   == MkPost("art",  "t1",   UrlA,   <<"x.com">>)
PostImg   == MkPost("aww",  "t1",   UrlImg, <<"i.", "imgur", ".com">>)
PostAlb   == MkPost("pics", "t1",   UrlAlb, <<"imgur", ".com">>)

\* the remote listing of one run: the pages the endpoint serves, newest first
Listings ==
    { <<>>,
      << <<PostB>> >>,
      << <<PostA, PostB, PostImg>>, <<PostArt>> >>,
      << <<PostA, PostImg>>, <<PostB, PostArt>> >>,
      << <<PostOther, PostA>>, <<PostSelf, PostArt, PostB>> >>,
      << <<PostAlb, PostB>> >>,
      << <<PostOther>>, <<PostB, PostA>> >>,
      << <<PostA>>, <<PostA, PostB>> >> }

\* what the album page of a post may contain: the hrefs of its zoom anchors
AlbumLinks == { <<>>, <<LinkA>>, <<LinkA, LinkC>> }

\* files that may be on disk before the run
InitialDisks ==
    { {},
      {PathJoin("/dest/pics", Basename(UrlB))},
      {PathJoin("/dest/pics", Basename(UrlA))} }

VARIABLES
    listing,        \* the remote listing (environment, fixed for the run)
    current_page,   \* RedditScraper.current_page: the cursor of the next request
    disk,           \* the files that exist
    mpc,            \* position of the main thread in App.run
    found_existing, \* grab_links: found_existing
    page,           \* grab_links: page
    posts,          \* grab_links: posts (after parse_posts)
    idx,            \* grab_links: position of the for loop in posts
    queue,          \* App.queue
    status_queue,   \* App.status_queue
    wpc,            \* position of each DownloadWorker
    wtask,          \* the tuple a worker got from the queue
    wfilename,      \* save_image: filename
    printed,        \* the status lines App.run printed
    \* history of the run (observations, read by no action's guard)
    fetches,        \* number of get_posts calls
    rawCount,       \* number of children of the last page served
    failure,        \* "none", or what raised out of grab_links
    failedAt,       \* fetches when the listing fetch failed
    puts,           \* number of queue.put calls on App.queue
    origin,         \* per task id: <<page fetch, position in posts>> of its post
    claimed,        \* the ids of the tasks queue.get handed out, in order
    raised,         \* ids of the tasks whose save_image raised
    clobbered       \* files opened for writing while they existed

vars == <<listing, current_page, disk, mpc, found_existing, page, posts, idx,
          queue, status_queue, wpc, wtask, wfilename, printed,
          fetches, rawCount, failure, failedAt, puts, origin, claimed, raised,
          clobbered>>

NoTask == [id |-> 0]

\* ------------------------------------------------------------- Link Source
\* the cursor of the first request: the newest page
FirstPage == [after |-> 0, null |-> FALSE]

\* the JSON the endpoint answers to the request for cursor c: the children
\* of the page after page c.after, and "after" (null on the last page and
\* beyond the end of the history)
Response(c) ==
    LET i == c.after + 1
    IN  IF ~c.null /\ i \in 1..Len(listing)
        THEN [children |-> listing[i],
              after |-> IF i < Len(listing)
                        THEN [after |-> i, null |-> FALSE]
                        ELSE [after |-> i, null |-> TRUE]]
        ELSE [children |-> <<>>, after |-> [after |-> c.after, null |-> TRUE]]

\* get_next_page(data['data']['after'])
get_next_page(last_post_id) == last_post_id

\* -------------------------------------------------------------- Post Filter
RECURSIVE parse_postsKeepSelf(_, _)
parse_postsKeepSelf(ps, subreddits) ==
    IF ps = <<>> THEN <<>>
    ELSE LET post == Head(ps)
             rest == parse_postsKeepSelf(Tail(ps), subreddits)
         IN  IF post.subreddit \in DOMAIN subreddits
             THEN <<[subreddit |-> post.subreddit,
                     thumbnail |-> post.thumbnail,
                     url |-> post.url, domain |-> post.domain,
                     download_path |-> subreddits[post.subreddit]]>> \o rest
             ELSE rest

RECURSIVE parse_posts(_, _)
parse_posts(ps, subreddits) ==
    IF ps = <<>> THEN <<>>
    ELSE LET post == Head(ps)
             rest == parse_posts(Tail(ps), subreddits)
         IN  IF post.subreddit \in DOMAIN subreddits /\ post.thumbnail # "self"
             THEN <<[subreddit |-> post.subreddit,
                     thumbnail |-> post.thumbnail,
                     url |-> post.url, domain |-> post.domain,
                     download_path |-> subreddits[post.subreddit]]>> \o rest
             ELSE rest

image_exists(url, download_path) ==
    PathJoin(download_path, Basename(url)) \in disk

\* the condition of grab_links under which get_imgur_links is called
IsAlbum(post) ==
    /\ TokIn("imgur", post.domain)
    /\ ~(TokInUrl(".jpeg", post.url) \/ TokInUrl(".png", post.url))

\* the tuple put on the queue; id is the ordinal of the put, the identity
\* of the tuple object
MkTask(url, download_path, subreddit, id) ==
    [url |-> url, download_path |-> download_path, subreddit |-> subreddit,
     id |-> id]

RECURSIVE ImgurTasksUnlessExists(_, _, _)
ImgurTasksUnlessExists(links, post, nextId) ==
    IF links = <<>> THEN <<>>
    ELSE IF image_exists(AddSchema(Head(links)), post.download_path)
    THEN ImgurTasksUnlessExists(Tail(links), post, nextId)
    ELSE <<MkTask(AddSchema(Head(links)), post.download_path,
                  post.subreddit, nextId)>>
         \o ImgurTasksUnlessExists(Tail(links), post, nextId + 1)

\* get_imgur_links: one put per link of the album page, in order
RECURSIVE ImgurTasks(_, _, _)
ImgurTasks(links, post, nextId) ==
    IF links = <<>> THEN <<>>
    ELSE <<MkTask(AddSchema(Head(links)), post.download_path,
                  post.subreddit, nextId)>>
         \o ImgurTasks(Tail(links), post, nextId + 1)

\* ------------------------------------------------------------------- Init
OnDiscoveryErrorRetry == "get_posts"

\* where an exception raised in grab_links leaves the main thread: run() has
\* no handler, the exception leaves App().run() and ends the process
OnDiscoveryError == "aborted"

CreatedWorkerPcRunning == "loop"

\* DownloadWorker.__init__ only stores the queues: the thread does not run
\* before start_workers calls start()
CreatedWorkerPc == "created"

Init ==
    /\ listing \in Listings
    /\ disk \in InitialDisks
    /\ current_page = FirstPage
    /\ mpc = "get_posts"
    /\ found_existing = FALSE
    /\ page = 0
    /\ posts = <<>>
    /\ idx = 1
    /\ queue = <<>>
    /\ status_queue = <<>>
    /\ wpc = [w \in Workers |-> CreatedWorkerPc]
    /\ wtask = [w \in Workers |-> NoTask]
    /\ wfilename = [w \in Workers |-> <<>>]
    /\ printed = <<>>
    /\ fetches = 0
    /\ rawCount = 0
    /\ failure = "none"
    /\ failedAt = 0
    /\ puts = 0
    /\ origin = <<>>
    /\ claimed = <<>>
    /\ raised = {}
    /\ clobbered = {}

\* ------------------------------------------------------------- discovery
\* posts = self.scraper.get_posts(); posts = parse_posts(posts, subreddits)
\* raise_for_status() or response.json() may raise
GetPosts ==
    /\ mpc = "get_posts"
    /\ fetches < MaxFetches
    /\ fetches' = fetches + 1
    /\ \/ /\ mpc' = OnDiscoveryError
          /\ failure' = "listing"
          /\ failedAt' = fetches + 1
          /\ UNCHANGED <<current_page, posts, idx, rawCount>>
       \/ LET data == Response(current_page)
          IN  /\ current_page' = get_next_page(data.after)
              /\ posts' = parse_posts(data.children, get_subreddits)
              /\ rawCount' = Len(data.children)
              /\ idx' = 1
              /\ mpc' = "for_post"
              /\ UNCHANGED <<failure, failedAt>>
    /\ UNCHANGED <<listing, disk, found_existing, page, queue, status_queue,
                   wpc, wtask, wfilename, printed, puts, origin, claimed, raised,
                   clobbered>>

OnExistingNoBreak == "for_post"

\* where the for loop goes when image_exists is true: break
OnExisting == "page_inc"

\* one iteration of "for post in posts" (or the end of the loop)
ForPost ==
    /\ mpc = "for_post"
    /\ IF idx > Len(posts)
       THEN /\ mpc' = "page_inc"
            /\ UNCHANGED <<found_existing, idx, queue, puts, origin, failure>>
       ELSE LET post == posts[idx]
                own(id) == MkTask(post.url, post.download_path,
                                  post.subreddit, id)
            IN  IF image_exists(post.url, post.download_path)
                THEN /\ found_existing' = TRUE
                     /\ idx' = idx + 1
                     /\ mpc' = OnExisting
                     /\ UNCHANGED <<queue, puts, origin, failure>>
                ELSE IF IsAlbum(post)
                THEN \/ \E links \in AlbumLinks :
                          /\ queue' = queue \o ImgurTasks(links, post, puts + 1)
                                        \o <<own(puts + Len(links) + 1)>>
                          /\ puts' = puts + Len(links) + 1
                          /\ origin' = origin \o [k \in 1..(Len(links) + 1) |->
                                                    <<fetches, idx>>]
                          /\ idx' = idx + 1
                          /\ mpc' = "for_post"
                          /\ UNCHANGED <<found_existing, failure>>
                     \* requests.get or html.fromstring raises
                     \/ /\ mpc' = OnDiscoveryError
                        /\ failure' = "album"
                        /\ UNCHANGED <<found_existing, idx, queue, puts, origin>>
                ELSE /\ queue' = Append(queue, own(puts + 1))
                     /\ puts' = puts + 1
                     /\ origin' = Append(origin, <<fetches, idx>>)
                     /\ idx' = idx + 1
                     /\ mpc' = "for_post"
                     /\ UNCHANGED <<found_existing, failure>>
    /\ UNCHANGED <<listing, current_page, disk, page, posts, status_queue,
                   wpc, wtask, wfilename, printed, fetches, rawCount,
                   failedAt, claimed, raised, clobbered>>

\* page += 1, then the test of "while not found_existing"; when the loop
\* ends grab_links returns to run()
PageInc ==
    /\ mpc = "page_inc"
    /\ page' = page + 1
    /\ mpc' = IF found_existing THEN "start_workers" ELSE "get_posts"
    /\ UNCHANGED <<listing, current_page, disk, found_existing, posts, idx,
                   queue, status_queue, wpc, wtask, wfilename, printed,
                   fetches, rawCount, failure, failedAt, puts, origin, claimed,
                   raised, clobbered>>

\* ------------------------------------------------------------ worker pool
\* start_workers: the threads are created, then each is started
StartWorkers ==
    /\ mpc = "start_workers"
    /\ wpc' = [w \in Workers |-> "loop"]
    /\ mpc' = "workers_alive"
    /\ UNCHANGED <<listing, current_page, disk, found_existing, page, posts,
                   idx, queue, status_queue, wtask, wfilename, printed,
                   fetches, rawCount, failure, failedAt, puts, origin, claimed,
                   raised, clobbered>>

QueueEmptyOffByOne(q) == Len(q) <= 1

\* queue.Queue.empty()
QueueEmpty(q) == q = <<>>

\* "while not self.queue.empty()": the test alone; the thread ends when the
\* queue is seen empty
WorkerLoop(w) ==
    /\ wpc[w] = "loop"
    /\ wpc' = [wpc EXCEPT ![w] = IF QueueEmpty(queue) THEN "exited" ELSE "get"]
    /\ UNCHANGED <<listing, current_page, disk, mpc, found_existing, page,
                   posts, idx, queue, status_queue, wtask, wfilename, printed,
                   fetches, rawCount, failure, failedAt, puts, origin, claimed,
                   raised, clobbered>>

QueueHeadNewest(q) == q[Len(q)]

\* queue.Queue.get: the item handed out, the oldest one (FIFO)
QueueHead(q) == Head(q)

QueueGetLossy(q) == IF Len(q) > 1 THEN Tail(Tail(q)) ELSE Tail(q)

QueueGetPeek(q) == q

\* queue.Queue.get: what is left in the queue after the head is handed out
QueueGet(q) == Tail(q)

\* "url, download_path, subreddit = self.queue.get()": blocks while the queue
\* is empty; then save_image starts with filename = url.split('/')[-1]
WorkerGet(w) ==
    /\ wpc[w] = "get"
    /\ queue # <<>>
    /\ wtask' = [wtask EXCEPT ![w] = QueueHead(queue)]
    /\ queue' = QueueGet(queue)
    /\ wfilename' = [wfilename EXCEPT ![w] = Basename(QueueHead(queue).url)]
    /\ claimed' = Append(claimed, QueueHead(queue).id)
    /\ wpc' = [wpc EXCEPT ![w] = "isfile"]
    /\ UNCHANGED <<listing, current_page, disk, mpc, found_existing, page,
                   posts, idx, status_queue, printed, fetches, rawCount,
                   failure, failedAt, puts, origin, raised, clobbered>>

\* one test of "while os.path.isfile(download_path + '\\' + filename)" and,
\* when it is true, filename += '_copy'
SaveImageIsFile(w) ==
    /\ wpc[w] = "isfile"
    /\ IF PathJoin(wtask[w].download_path, wfilename[w]) \in disk
       THEN /\ wfilename' = [wfilename EXCEPT ![w] = Append(@, "_copy")]
            /\ UNCHANGED wpc
       ELSE /\ wpc' = [wpc EXCEPT ![w] = "open"]
            /\ UNCHANGED wfilename
    /\ UNCHANGED <<listing, current_page, disk, mpc, found_existing, page,
                   posts, idx, queue, status_queue, wtask, printed, fetches,
                   rawCount, failure, failedAt, puts, origin, claimed, raised,
                   clobbered>>

\* the ways the rest of save_image can end: it returns; requests.get or
\* open raises (no file is made); copyfileobj raises (the file is made)
SaveOutcomes == {"returns", "raises_before_open", "raises_after_open"}

\* the tuple the worker puts on status_queue
MkStatus(task, status) ==
    [url |-> task.url, subreddit |-> task.subreddit, status |-> status,
     id |-> task.id]

\* the except / else branches of DownloadWorker.run
WorkerStatus(outcome) == IF outcome = "returns" THEN "Success" ELSE "Failed"

AfterTaskUncaught(outcome) == IF outcome = "returns" THEN "loop" ELSE "exited"

\* where the worker goes after the finally clause, whatever save_image did:
\* back to the loop test
AfterTask(outcome) == "loop"

QueueAfterTaskRetry(q, task, outcome) ==
    IF outcome = "returns" THEN q ELSE Append(q, task)

\* App.queue after the worker finished a task: run() only calls get() and
\* task_done() on it, the task is not put back whatever save_image did
QueueAfterTask(q, task, outcome) == q

\* the rest of save_image (requests.get, open(..., 'wb'), copyfileobj), then
\* the status_queue.put of the except or else branch, then task_done()
SaveImageWrite(w) ==
    /\ wpc[w] = "open"
    /\ \E outcome \in SaveOutcomes :
        LET file == PathJoin(wtask[w].download_path, wfilename[w])
            opened == outcome # "raises_before_open"
        IN  /\ disk' = IF opened THEN disk \cup {file} ELSE disk
            /\ clobbered' = IF opened /\ file \in disk
                            THEN clobbered \cup {file} ELSE clobbered
            /\ raised' = IF outcome = "returns" THEN raised
                         ELSE raised \cup {wtask[w].id}
            /\ status_queue' = Append(status_queue,
                                      MkStatus(wtask[w], WorkerStatus(outcome)))
            /\ wpc' = [wpc EXCEPT ![w] = AfterTask(outcome)]
            /\ queue' = QueueAfterTask(queue, wtask[w], outcome)
    /\ wtask' = [wtask EXCEPT ![w] = NoTask]
    /\ wfilename' = [wfilename EXCEPT ![w] = <<>>]
    /\ UNCHANGED <<listing, current_page, mpc, found_existing, page, posts,
                   idx, printed, fetches, rawCount, failure, failedAt,
                   puts, origin, claimed>>

\* ------------------------------------------------------- status aggregator
\* any([t.isAlive() for t in self.threads]). The threads are read one after
\* the other; a thread that is dead stays dead, so the value is the one a
\* single read of all of them gives at the moment the first live thread (or,
\* when there is none, the last thread) is read.
\* (Thread.isAlive is the spelling of is_alive of the interpreters the
\* program was written for.)
workers_alive == \E w \in Workers : wpc[w] # "exited"

\* the test of "while self.workers_alive()"
WorkersAlive ==
    /\ mpc = "workers_alive"
    /\ mpc' = IF workers_alive THEN "status_get" ELSE "done"
    /\ UNCHANGED <<listing, current_page, disk, found_existing, page, posts,
                   idx, queue, status_queue, wpc, wtask, wfilename, printed,
                   fetches, rawCount, failure, failedAt, puts, origin, claimed,
                   raised, clobbered>>

\* download_status = self.status_queue.get() (blocks while it is empty) and
\* the print of the status line
StatusGet ==
    /\ mpc = "status_get"
    /\ status_queue # <<>>
    /\ printed' = Append(printed, Head(status_queue))
    /\ status_queue' = Tail(status_queue)
    /\ mpc' = "workers_alive"
    /\ UNCHANGED <<listing, current_page, disk, found_existing, page, posts,
                   idx, queue, wpc, wtask, wfilename, fetches, rawCount,
                   failure, failedAt, puts, origin, claimed, raised, clobbered>>

Next ==
    \/ GetPosts
    \/ ForPost
    \/ PageInc
    \/ StartWorkers
    \/ \E w \in Workers : WorkerLoop(w)
    \/ \E w \in Workers : WorkerGet(w)
    \/ \E w \in Workers : SaveImageIsFile(w)
    \/ \E w \in Workers : SaveImageWrite(w)
    \/ WorkersAlive
    \/ StatusGet

Spec == Init /\ [][Next]_vars

\* ------------------------------------------------------------ properties
\* the positions of the main thread before start_workers has run
DiscoveryPcs == {"get_posts", "for_post", "page_inc", "start_workers",
                 "aborted"}

\* every status tuple a worker has put so far, in order: those printed
\* followed by those still on status_queue
Emitted == printed \o status_queue

ResultsFor(id) == {i \in 1..Len(Emitted) : Emitted[i].id = id}

Holding(id) == \E w \in Workers : wtask[w].id = id

\* C1: once the status loop has ended ("Done"), it has printed exactly one
\* status line per task discovery enqueued (K = puts).
C1_DoneReportsAll == mpc = "done" => Len(printed) = puts

\* C2: after discovery no worker is left blocked in queue.get(): a worker
\* waiting in get() on an empty queue waits forever, since nothing is put on
\* the queue once the workers run.
C2_NoWorkerBlocked == \A w \in Workers : ~(wpc[w] = "get" /\ queue = <<>>)

\* C3: when the status loop has ended, every worker has exited and
\* status_queue is empty.
C3_DoneMeansDrained ==
    mpc = "done" => /\ \A w \in Workers : wpc[w] = "exited"
                    /\ status_queue = <<>>

\* C4: each task put on the queue is handed out by queue.get() at most once,
\* and no two workers hold the same task.
C4_ClaimedAtMostOnce ==
    /\ \A i, j \in 1..Len(claimed) : claimed[i] = claimed[j] => i = j
    /\ \A v, w \in Workers :
          (v # w /\ wtask[v] # NoTask) => wtask[v].id # wtask[w].id

C4_Witness ==
    /\ Len(claimed) >= 2
    /\ \E v, w \in Workers : v # w /\ wtask[v] # NoTask /\ wtask[w] # NoTask

\* C5: while the main thread is still in grab_links (or has not yet run
\* start_workers), no worker runs, no task has been dequeued, every task
\* put is still on the queue and nothing has been saved or reported.
C5_DiscoveryBeforeDownload ==
    mpc \in DiscoveryPcs =>
        /\ \A w \in Workers : wpc[w] = "created"
        /\ claimed = <<>>
        /\ Len(queue) = puts
        /\ Emitted = <<>>

C5_Witness == mpc = "for_post" /\ fetches = 2 /\ idx > 1 /\ Len(queue) >= 2

\* C6: once found_existing is set it stays set, and from then on no step
\* fetches a page or puts a task on the queue.
C6_StopIsOneWay ==
    [][found_existing =>
         (found_existing' /\ fetches' = fetches /\ puts' = puts)]_vars

\* the stop was detected in the middle of a page with an older page left, and
\* the run went on to its end
C6_Witness ==
    /\ found_existing
    /\ idx <= Len(posts)
    /\ ~current_page.null
    /\ mpc = "done"

\* C7: when the page just processed had zero posts and no existing file was
\* found, the discovery loop ends and the download phase starts.
C7_EmptyPageEndsDiscovery ==
    [][(mpc = "page_inc" /\ rawCount = 0 /\ ~found_existing)
          => mpc' = "start_workers"]_vars

\* C8: save_image never opens for writing a file that exists.
C8_NoOverwrite == clobbered = {}

\* C9: every task a worker dequeued has no status while the worker holds it
\* and exactly one afterwards, 'Failed' exactly when save_image raised; and a
\* worker exits only because it saw the queue empty, never because of a task.
C9_FailureIsolated ==
    /\ \A k \in 1..Len(claimed) :
          LET id == claimed[k]
          IN  IF Holding(id)
              THEN ResultsFor(id) = {}
              ELSE /\ Cardinality(ResultsFor(id)) = 1
                   /\ \A i \in ResultsFor(id) :
                         Emitted[i].status =
                            IF id \in raised THEN "Failed" ELSE "Success"
    /\ \A w \in Workers : wpc[w] = "exited" => queue = <<>>

\* a task failed, and a task dequeued after it was carried out
C9_Witness ==
    \E i, j \in 1..Len(Emitted) :
        /\ Emitted[i].status = "Failed"
        /\ Emitted[j].status = "Success"
        /\ Emitted[i].id < Emitted[j].id
        /\ i < j

\* C10: after a listing fetch failed the run is over: no further get_posts
\* call, no worker started, no task dequeued, nothing saved or reported.
C10_FetchFailureAborts ==
    failure = "listing" =>
        /\ mpc = "aborted"
        /\ fetches = failedAt
        /\ \A w \in Workers : wpc[w] = "created"
        /\ claimed = <<>>
        /\ Len(queue) = puts
        /\ Emitted = <<>>

\* the second page failed with tasks of the first page on the queue
C10_Witness == failure = "listing" /\ fetches = 2 /\ queue # <<>>

\* the children of the page the f-th get_posts call was served
FetchedPage(f) == IF f \in 1..Len(listing) THEN listing[f] ELSE <<>>

\* the Post Filter's rule: the category is mapped and the post is no text post
IncludedPost(post) ==
    post.subreddit \in DOMAIN get_subreddits /\ post.thumbnail # "self"

IncludedOf(f) == SelectSeq(FetchedPage(f), IncludedPost)

\* the tasks a step appended to the queue
NewTasks == SubSeq(queue', Len(queue) + 1, Len(queue'))

\* C11: a failure of the album expansion does not abort the run.
C11_ExpansionFailureNonFatal == ~(failure = "album" /\ mpc = "aborted")

\* C12: a step of the for loop that enqueues for an album post enqueues one
\* task per link of the album page (scheme added) and none for the album URL;
\* for any other post it enqueues exactly one task, for the post's URL.
C12_AlbumTasksOnly ==
    [][(mpc = "for_post" /\ idx <= Len(posts) /\ puts' # puts) =>
        LET post == posts[idx]
        IN  IF IsAlbum(post)
            THEN /\ \E links \in AlbumLinks :
                      /\ Len(NewTasks) = Len(links)
                      /\ \A k \in 1..Len(links) :
                            NewTasks[k].url = AddSchema(links[k])
                 /\ \A k \in 1..Len(NewTasks) : NewTasks[k].url # post.url
            ELSE Len(NewTasks) = 1 /\ NewTasks[1].url = post.url]_vars

\* C13: the posts the for loop runs over are exactly the fetched posts with a
\* mapped category and a thumbnail other than 'self', in order, each with
\* download_path = CategoryMap[category]; every task on the queue comes from
\* such a post and has its category and destination; and the post that set
\* found_existing is such a post.
C13_OnlyIncludedPosts ==
    /\ (fetches >= 1 /\ failure # "listing") =>
          /\ Len(posts) = Len(IncludedOf(fetches))
          /\ \A i \in 1..Len(posts) :
                /\ posts[i].url = IncludedOf(fetches)[i].url
                /\ posts[i].subreddit = IncludedOf(fetches)[i].subreddit
                /\ posts[i].thumbnail = IncludedOf(fetches)[i].thumbnail
                /\ posts[i].download_path = get_subreddits[posts[i].subreddit]
    /\ \A i \in 1..Len(queue) :
          LET t == queue[i]
              o == origin[t.id]
          IN  /\ o[2] \in 1..Len(IncludedOf(o[1]))
              /\ t.subreddit = IncludedOf(o[1])[o[2]].subreddit
              /\ t.download_path = get_subreddits[t.subreddit]
    /\ found_existing =>
          /\ idx - 1 \in 1..Len(posts)
          /\ IncludedPost(posts[idx - 1])

\* two pages were filtered (a post of an unmapped category, a text post whose
\* file exists) and the stop came from an included post
C13_Witness ==
    /\ mpc = "start_workers"
    /\ fetches = 2
    /\ rawCount = 3
    /\ Len(posts) = 2
    /\ Len(queue) = 2

\* the positions <<page fetch, index>> of the included posts of the listing,
\* and the fetch order on them
Positions ==
    UNION {{<<f, k>> : k \in 1..Len(IncludedOf(f))} : f \in 1..Len(listing)}

Precedes(a, b) == a[1] < b[1] \/ (a[1] = b[1] /\ a[2] < b[2])

\* the target file of the included post at position p exists
ExistsAt(p) ==
    LET post == IncludedOf(p[1])[p[2]]
    IN  PathJoin(get_subreddits[post.subreddit], Basename(post.url)) \in disk

FirstIncluded(p) == p \in Positions /\ \A q \in Positions : ~Precedes(q, p)

\* when discovery has just ended by the stop condition, every task comes
\* from an included post that precedes every included post whose file exists
TasksPrecedeStop ==
    /\ Len(queue) = puts
    /\ \A id \in 1..puts :
          /\ origin[id] \in Positions
          /\ \A p \in Positions : ExistsAt(p) => Precedes(origin[id], p)

\* C14 as stated: when discovery ends by the stop condition the queue holds
\* tasks only for included posts before the first included post whose file
\* exists; if the first included post's file exists, discovery ends after
\* exactly one page fetch with zero tasks.
C14_StopAfterOneFetch ==
    mpc = "start_workers" =>
        /\ TasksPrecedeStop
        /\ \A p \in Positions :
              (FirstIncluded(p) /\ ExistsAt(p)) => (fetches = 1 /\ puts = 0)

\* C14 amended: ... if the first included post's file exists, discovery ends
\* with zero tasks after fetching the pages up to the one holding that post
\* (excluded posts may fill the pages before it).
C14_StopAtFirstExisting ==
    mpc = "start_workers" =>
        /\ TasksPrecedeStop
        /\ ExistsAt(<<fetches, idx - 1>>)
        /\ \A p \in Positions :
              (FirstIncluded(p) /\ ExistsAt(p)) => (fetches = p[1] /\ puts = 0)

\* the first included post is on the second page and its file exists
C14_Witness ==
    /\ mpc = "start_workers"
    /\ puts = 0
    /\ fetches = 2
    /\ FirstIncluded(<<2, 1>>)

\* C15: queue.get hands the tasks out in the order they were put: the k-th
\* task dequeued is the k-th task enqueued.
C15_Fifo == \A k \in 1..Len(claimed) : claimed[k] = k

\* three tasks were dequeued while two workers were still busy
C15_Witness ==
    /\ Len(claimed) = 3
    /\ \E v, w \in Workers : v # w /\ wtask[v].id = 2 /\ wtask[w].id = 3

\* C16: a task that was dequeued is never on the queue again, and a task
\* whose save_image raised was dequeued (and so attempted) exactly once.
C16_NoRetry ==
    /\ \A i \in 1..Len(queue) :
          \A k \in 1..Len(claimed) : queue[i].id # claimed[k]
    /\ \A id \in raised :
          /\ Cardinality({k \in 1..Len(claimed) : claimed[k] = id}) = 1
          /\ ~Holding(id)
    /\ Len(claimed) <= puts

\* a download failed and the run went on to its end
C16_Witness == raised # {} /\ puts >= 2 /\ mpc = "done"

QueueIds == {queue[i].id : i \in 1..Len(queue)}

HeldIds == {wtask[w].id : w \in {v \in Workers : wtask[v] # NoTask}}

EmittedIds == {Emitted[i].id : i \in 1..Len(Emitted)}

\* C17: tasks on the queue + tasks held by a worker + results emitted = K,
\* and the three groups are exactly the K tasks, each once.
C17_Conservation ==
    /\ Len(queue) + Cardinality({w \in Workers : wtask[w] # NoTask})
          + Len(Emitted) = puts
    /\ Len(Emitted) <= puts
    /\ QueueIds \cup HeldIds \cup EmittedIds = 1..puts
    /\ Cardinality(QueueIds) = Len(queue)
    /\ Cardinality(EmittedIds) = Len(Emitted)

\* a task is waiting, one is being downloaded and one has its result
C17_Witness == queue # <<>> /\ HeldIds # {} /\ Emitted # <<>>

\* C18: when all workers have exited the queue is empty and each of the K
\* tasks has exactly one result.
C18_AllExitedAllDone ==
    (\A w \in Workers : wpc[w] = "exited") =>
        /\ queue = <<>>
        /\ \A id \in 1..puts : Cardinality(ResultsFor(id)) = 1

C18_Witness == (\A w \in Workers : wpc[w] = "exited") /\ puts >= 2

\* C19: an iteration of the for loop sets found_existing exactly when the
\* file named by the last segment of the post's own URL exists in the post's
\* folder; for an album post whose own file does not exist, every link of the
\* album page is enqueued, whether or not its file exists.
C19_CheckOwnUrlOnly ==
    [][(mpc = "for_post" /\ idx <= Len(posts)) =>
        LET post == posts[idx]
            own == PathJoin(post.download_path, Last(post.url))
        IN  /\ found_existing' = (own \in disk)
            /\ (IsAlbum(post) /\ own \notin disk /\ failure' = "none") =>
                  \E links \in AlbumLinks :
                      /\ Len(NewTasks) = Len(links) + 1
                      /\ \A k \in 1..Len(links) :
                            /\ NewTasks[k].url = AddSchema(links[k])
                            /\ NewTasks[k].download_path = post.download_path
                      /\ NewTasks[Len(links) + 1].url = post.url]_vars

\* a link of an album was enqueued although its file exists, and discovery
\* went on
C19_Witness ==
    /\ ~found_existing
    /\ mpc = "for_post"
    /\ \E i \in 1..Len(queue) :
          /\ queue[i].url # posts[origin[queue[i].id][2]].url
          /\ origin[queue[i].id][1] = fetches
          /\ image_exists(queue[i].url, queue[i].download_path)

====
